---- MODULE Spec2Model ----
(***************************************************************************)
(* A model of the Dota2 league scoring engine of src/database.py: the      *)
(* JSON document (matches, players, horse_overrides), the tier classifier, *)
(* the team balance evaluator, the player statistics aggregator and the    *)
(* match ledger operations, plus the load_data / save_data file protocol.  *)
(*                                                                         *)
(* Conventions of the model                                                *)
(*   - score, season_score and the compensation are kept in HALF POINTS    *)
(*     (the code works in multiples of 0.5): +1 is 2, +0.5 is 1.           *)
(*   - the string labels of the code are written in ASCII:                 *)
(*       "Radiant" = 天辉, "Dire" = 夜魔,                                  *)
(*       "elite" = 特等, "mid" = 中等, "auto" = 自动, "jiang" = 僵.        *)
(*   - a python dict whose iteration order the code depends on (players)   *)
(*     is a sequence of records in insertion order; dicts whose order is   *)
(*     never read (horse_overrides, teammates, opponents) are functions.   *)
(*   - a player appearance keeps the two fields the engine reads, name and *)
(*     tags; hero, level, kda, ... and the match's date are never read.    *)
(***************************************************************************)
EXTENDS Integers, Sequences, FiniteSets, TLC

VARIABLES
    file,     \* the content of DATA_FILE: a document, or Truncated / Partial
    req,      \* SpecConc: the in-flight request of each server thread
    acked,    \* SpecConc: how many add_match / delete_match calls returned success
    passed,   \* SpecConc: the documents handed to save_data so far
    answer    \* SpecLeague: the last read-only query of the document as it is
              \* now, and what it returned

vars == <<file, req, acked, passed, answer>>

----------------------------------------------------------------------------
(* Bounds of the model                                                     *)

\* number of add_match calls made before the modelled window opens
SeedLen == 19
\* ledger length allowed on top of the seed
MaxNew == 2
\* the latest time at which a match is entered
MaxClock == 3
\* SpecLeague: the leagues hold up to SmallLeague players, or MaxLeague - 1
\* or MaxLeague of them, each with QualifiedGames games
SmallLeague == 5
MaxLeague == 20

----------------------------------------------------------------------------
(* Program constants                                                       *)

\* games needed for automatic classification
QualifiedGames == 20

Names == {"a", "b", "c"}
NoName == ""
TagVocabulary == {"MVP", "SVP", "jiang"}
TeamLabels == {"Radiant", "Dire"}

\* HORSE_LEVELS: the tier labels and their values
HORSE_LEVELS == [elite |-> 1, mid |-> 0, auto |-> -1]
Unclassified == ""

EmptyMap == [x \in {} |-> 0]

\* Sequencing: the value of e is computed once and handed to F, as a
\* statement's result is handed to the statements after it.
Then(e, F(_)) == CHOOSE r \in {F(v) : v \in {e}} : TRUE

\* the document init_database writes when DATA_FILE does not exist
\* (seasons and current_season are never read by the engine)
EmptyDocument ==
    [matches |-> <<>>, players |-> <<>>, horse_overrides |-> EmptyMap]

\* the document load_data falls back to: it has no horse_overrides key
FallbackDocument == [matches |-> <<>>, players |-> <<>>]

----------------------------------------------------------------------------
(* Dict access                                                             *)

\* data.get("horse_overrides", {})
Overrides(data) ==
    IF "horse_overrides" \in DOMAIN data THEN data.horse_overrides ELSE EmptyMap

\* the keys of data["players"], in insertion order
PlayerNames(players) == [i \in 1..Len(players) |-> players[i].name]

HasPlayer(players, name) == \E i \in 1..Len(players) : players[i].name = name

PlayerIndex(players, name) ==
    CHOOSE i \in 1..Len(players) : players[i].name = name

PlayerOf(players, name) == players[PlayerIndex(players, name)]

----------------------------------------------------------------------------
(* Tier classifier                                                         *)

\* list.sort(key=score, reverse=True): a stable sort, equal scores keep
\* their original relative order. Insertion of x behind every element whose
\* score is at least x's.
RECURSIVE InsertByScore(_, _)
InsertByScore(sorted, x) ==
    IF sorted = <<>> THEN <<x>>
    ELSE IF Head(sorted).score >= x.score
         THEN <<Head(sorted)>> \o InsertByScore(Tail(sorted), x)
         ELSE <<x>> \o sorted

RECURSIVE SortByScoreDesc(_)
SortByScoreDesc(list) ==
    IF list = <<>> THEN <<>>
    ELSE InsertByScore(SortByScoreDesc(SubSeq(list, 1, Len(list) - 1)),
                       list[Len(list)])

\* the players with total_games >= 20, as {name, score}, in dict order
qualified_players(data) ==
    LET keep(p) == p.total_games >= QualifiedGames
        kept == SelectSeq(data.players, keep)
    IN  [i \in 1..Len(kept) |-> [name |-> kept[i].name, score |-> kept[i].score]]

\* the default for an empty qualified list taken to be the top tier
calculate_auto_horse_level_EliteDefault(data, player_name) ==
    LET q == SortByScoreDesc(qualified_players(data))
        total == Len(q)
    IN  IF total = 0 THEN "elite"
        ELSE IF ~ \E i \in 1..total : q[i].name = player_name THEN "mid"
        ELSE LET rank == CHOOSE i \in 1..total : q[i].name = player_name
             IN  IF 5 * rank <= total THEN "elite"
                 ELSE IF 5 * rank <= 4 * total THEN "mid"
                 ELSE "auto"

\* the top fifth cut short: percentile < 0.2 where <= is written
calculate_auto_horse_level_Strict(data, player_name) ==
    LET q == SortByScoreDesc(qualified_players(data))
        total == Len(q)
    IN  IF total = 0 THEN "mid"
        ELSE IF ~ \E i \in 1..total : q[i].name = player_name THEN "mid"
        ELSE LET rank == CHOOSE i \in 1..total : q[i].name = player_name
             IN  IF 5 * rank < total THEN "elite"
                 ELSE IF 5 * rank <= 4 * total THEN "mid"
                 ELSE "auto"

calculate_auto_horse_level(data, player_name) ==
    LET q == SortByScoreDesc(qualified_players(data))
        total == Len(q)
    IN  IF total = 0 THEN "mid"
        ELSE IF ~ \E i \in 1..total : q[i].name = player_name THEN "mid"
        ELSE LET rank == CHOOSE i \in 1..total : q[i].name = player_name
             IN  \* percentile = rank / total, compared with 0.2 and 0.8
                 IF 5 * rank <= total THEN "elite"
                 ELSE IF 5 * rank <= 4 * total THEN "mid"
                 ELSE "auto"

\* a player without tier passed off as mid
get_player_horse_level_MidDefault(data, player_name) ==
    IF player_name \in DOMAIN Overrides(data)
    THEN Overrides(data)[player_name]
    ELSE IF \/ ~ HasPlayer(data.players, player_name)
            \/ PlayerOf(data.players, player_name).total_games < QualifiedGames
         THEN "mid"
         ELSE calculate_auto_horse_level(data, player_name)

\* the override consulted only for players short of 20 games
get_player_horse_level_RankFirst(data, player_name) ==
    IF \/ ~ HasPlayer(data.players, player_name)
       \/ PlayerOf(data.players, player_name).total_games < QualifiedGames
    THEN IF player_name \in DOMAIN Overrides(data)
         THEN Overrides(data)[player_name]
         ELSE Unclassified
    ELSE calculate_auto_horse_level(data, player_name)

get_player_horse_level(data, player_name) ==
    IF player_name \in DOMAIN Overrides(data)
    THEN Overrides(data)[player_name]
    ELSE IF \/ ~ HasPlayer(data.players, player_name)
            \/ PlayerOf(data.players, player_name).total_games < QualifiedGames
         THEN Unclassified
         ELSE calculate_auto_horse_level(data, player_name)

\* an optional int: None is <<>>, the value v is <<v>>
get_horse_value(horse_level) ==
    IF horse_level = Unclassified THEN <<>>
    ELSE IF horse_level \in DOMAIN HORSE_LEVELS THEN <<HORSE_LEVELS[horse_level]>>
    ELSE <<0>>

----------------------------------------------------------------------------
(* Team balance evaluator                                                  *)

RECURSIVE calculate_team_score(_, _)
calculate_team_score(data, players) ==
    IF players = <<>> THEN 0
    ELSE LET name == Head(players).name
             rest == calculate_team_score(data, Tail(players))
         IN  IF name # NoName
             THEN LET value == get_horse_value(get_player_horse_level(data, name))
                  IN  (IF value # <<>> THEN value[1] ELSE 0) + rest
             ELSE rest

\* the loop without its break, the flag overwritten by each named player
AllClassified_Overwritten(data, all_players) ==
    LET named(p) == p.name # NoName
        list == SelectSeq(all_players, named)
    IN  \/ list = <<>>
        \/ get_player_horse_level(data, list[Len(list)].name) # Unclassified

\* the loop of lines 173-181: false as soon as a named player has no tier
AllClassified(data, all_players) ==
    \A i \in 1..Len(all_players) :
        all_players[i].name # NoName
            => get_player_horse_level(data, all_players[i].name) # Unclassified

\* lines 205-211, in half points: 0.5 when the winners are stronger by
\* exactly one, nothing when the result is invalid or the winners not stronger
\* the invalid case forgotten: every stronger winner compensates
CompensationFor_AtLeastOne(difference) ==
    IF difference > 0 THEN 1 ELSE 0

\* a whole point where half a point is due
CompensationFor_WholePoint(difference) ==
    IF difference > 0 /\ ~ (difference >= 2) THEN 2 ELSE 0

CompensationFor(difference) ==
    IF difference > 0 /\ ~ (difference >= 2) THEN 1 ELSE 0

\* lines 205-208: the result is invalid when the winners are stronger by two
InvalidFor(difference) == difference > 0 /\ difference >= 2

calculate_compensation(data, winner_players, loser_players) ==
    LET all_classified == AllClassified(data, winner_players \o loser_players)
        winner_score == calculate_team_score(data, winner_players)
        loser_score == calculate_team_score(data, loser_players)
        difference == winner_score - loser_score
    IN  IF ~ all_classified
        THEN [winner_score |-> 0, loser_score |-> 0, difference |-> 0,
              compensation |-> 0, invalid |-> FALSE, all_classified |-> FALSE]
        ELSE [winner_score |-> winner_score, loser_score |-> loser_score,
              difference |-> difference,
              compensation |-> CompensationFor(difference),
              invalid |-> InvalidFor(difference),
              all_classified |-> TRUE]

----------------------------------------------------------------------------
(* Player statistics aggregator                                            *)

\* the record update_player_stats creates on a first appearance
NewPlayer(name) ==
    [name |-> name, total_games |-> 0, wins |-> 0, losses |-> 0, score |-> 0,
     season_score |-> 0, season_games |-> 0,
     mvp_count |-> 0, svp_count |-> 0, jiang_count |-> 0,
     teammates |-> EmptyMap, opponents |-> EmptyMap]

\* the frozen tag costing a whole point
ScoreDelta_JiangWholePoint(tags, won, bonus_score) ==
    (IF won
     THEN 2 + (IF "MVP" \in tags THEN 1 ELSE 0)
     ELSE -2 + (IF "SVP" \in tags THEN 1 ELSE 0)
             - (IF "jiang" \in tags THEN 2 ELSE 0))
    + (IF bonus_score > 0 THEN bonus_score ELSE 0)

\* the SVP half point given whatever the result
ScoreDelta_SvpOnWinner(tags, won, bonus_score) ==
    (IF won
     THEN 2 + (IF "MVP" \in tags THEN 1 ELSE 0)
     ELSE -2 - (IF "jiang" \in tags THEN 1 ELSE 0))
    + (IF "SVP" \in tags THEN 1 ELSE 0)
    + (IF bonus_score > 0 THEN bonus_score ELSE 0)

\* the score change of one appearance, in half points (lines 323-341)
ScoreDelta(tags, won, bonus_score) ==
    (IF won
     THEN 2 + (IF "MVP" \in tags THEN 1 ELSE 0)
     ELSE -2 + (IF "SVP" \in tags THEN 1 ELSE 0)
             - (IF "jiang" \in tags THEN 1 ELSE 0))
    + (IF bonus_score > 0 THEN bonus_score ELSE 0)

\* lines 323-324 and 329-330
WinsDelta(won) == IF won THEN 1 ELSE 0

\* losses += 1 slipped out of the else branch
LossesDelta_Always(won) == 1

LossesDelta(won) == IF won THEN 0 ELSE 1

\* the tag counters moved into the branches that score the tags
update_player_stats_TagsByResult(data, player, won, opponents, bonus_score) ==
    IF player.name = NoName THEN data
    ELSE LET tags == player.tags
             players == IF HasPlayer(data.players, player.name)
                        THEN data.players
                        ELSE Append(data.players, NewPlayer(player.name))
             i == PlayerIndex(players, player.name)
             p == players[i]
             q == [p EXCEPT
                     !.total_games = @ + 1,
                     !.wins = @ + WinsDelta(won),
                     !.losses = @ + LossesDelta(won),
                     !.score = @ + ScoreDelta(tags, won, bonus_score),
                     !.mvp_count = @ + (IF won /\ "MVP" \in tags THEN 1 ELSE 0),
                     !.svp_count = @ + (IF ~ won /\ "SVP" \in tags THEN 1 ELSE 0),
                     !.jiang_count = @ + (IF ~ won /\ "jiang" \in tags THEN 1 ELSE 0)]
         IN  [data EXCEPT !.players = [players EXCEPT ![i] = q]]

\* the early return on an empty name left out
update_player_stats_NoSkip(data, player, won, opponents, bonus_score) ==
    IF FALSE THEN data
    ELSE LET tags == player.tags
             players == IF HasPlayer(data.players, player.name)
                        THEN data.players
                        ELSE Append(data.players, NewPlayer(player.name))
             i == PlayerIndex(players, player.name)
             p == players[i]
             q == [p EXCEPT
                     !.total_games = @ + 1,
                     !.wins = @ + WinsDelta(won),
                     !.losses = @ + LossesDelta(won),
                     !.score = @ + ScoreDelta(tags, won, bonus_score),
                     !.mvp_count = @ + (IF "MVP" \in tags THEN 1 ELSE 0),
                     !.svp_count = @ + (IF "SVP" \in tags THEN 1 ELSE 0),
                     !.jiang_count = @ + (IF "jiang" \in tags THEN 1 ELSE 0)]
         IN  [data EXCEPT !.players = [players EXCEPT ![i] = q]]

update_player_stats(data, player, won, opponents, bonus_score) ==
    IF player.name = NoName THEN data
    ELSE LET tags == player.tags
             players == IF HasPlayer(data.players, player.name)
                        THEN data.players
                        ELSE Append(data.players, NewPlayer(player.name))
             i == PlayerIndex(players, player.name)
             p == players[i]
             q == [p EXCEPT
                     !.total_games = @ + 1,
                     !.wins = @ + WinsDelta(won),
                     !.losses = @ + LossesDelta(won),
                     !.score = @ + ScoreDelta(tags, won, bonus_score),
                     !.mvp_count = @ + (IF "MVP" \in tags THEN 1 ELSE 0),
                     !.svp_count = @ + (IF "SVP" \in tags THEN 1 ELSE 0),
                     !.jiang_count = @ + (IF "jiang" \in tags THEN 1 ELSE 0)]
         IN  [data EXCEPT !.players = [players EXCEPT ![i] = q]]

\* update_player_stats for the entries lo..hi of the roster, in list order:
\* those of the first half, then those of the second half
RECURSIVE UpdateRange(_, _, _, _, _, _, _)
UpdateRange(data, roster, lo, hi, won, opponents, bonus_score) ==
    IF lo > hi THEN data
    ELSE IF lo = hi
         THEN update_player_stats(data, roster[lo], won, opponents, bonus_score)
         ELSE Then(UpdateRange(data, roster, lo, (lo + hi) \div 2,
                               won, opponents, bonus_score),
                   LAMBDA d : UpdateRange(d, roster, (lo + hi) \div 2 + 1, hi,
                                          won, opponents, bonus_score))

\* for player in roster: update_player_stats(data, player, won, opponents, bonus)
UpdateRoster(data, roster, won, opponents, bonus_score) ==
    UpdateRange(data, roster, 1, Len(roster), won, opponents, bonus_score)

\* [p["name"] for p in roster if p.get("name")]
RECURSIVE NamedOf(_)
NamedOf(roster) ==
    IF roster = <<>> THEN <<>>
    ELSE IF Head(roster).name # NoName
         THEN <<Head(roster).name>> \o NamedOf(Tail(roster))
         ELSE NamedOf(Tail(roster))

\* rel[name2] created at {games: 0, wins: 0} when absent, then counted
Bump(rel, name2, won) ==
    LET old == IF name2 \in DOMAIN rel THEN rel[name2] ELSE [games |-> 0, wins |-> 0]
        new == [games |-> old.games + 1, wins |-> old.wins + (IF won THEN 1 ELSE 0)]
    IN  (name2 :> new) @@ rel

\* Bump for the names lo..hi of others, in list order
RECURSIVE BumpRange(_, _, _, _, _)
BumpRange(rel, others, lo, hi, won) ==
    IF lo > hi THEN rel
    ELSE IF lo = hi THEN Bump(rel, others[lo], won)
         ELSE Then(BumpRange(rel, others, lo, (lo + hi) \div 2, won),
                   LAMBDA r : BumpRange(r, others, (lo + hi) \div 2 + 1, hi, won))

BumpAll(rel, others, won) == BumpRange(rel, others, 1, Len(others), won)

\* the inner loop started behind i: only the players listed after i
Without_After(list, i) == SubSeq(list, i + 1, Len(list))

\* the list without its i-th element (the j # i of the inner loop)
Without(list, i) == SubSeq(list, 1, i - 1) \o SubSeq(list, i + 1, Len(list))

\* every game against an opponent counted as won
RelateOne_EveryDuelWon(data, team, other_team, i, team_won) ==
    IF ~ HasPlayer(data.players, team[i]) THEN data
    ELSE LET k == PlayerIndex(data.players, team[i])
             p1 == data.players[k]
             q1 == [p1 EXCEPT
                      !.teammates = BumpAll(@, Without(team, i), team_won),
                      !.opponents = BumpAll(@, other_team, TRUE)]
         IN  [data EXCEPT !.players[k] = q1]

\* the body of the outer loops: the relations of the i-th player of team
RelateOne(data, team, other_team, i, team_won) ==
    IF ~ HasPlayer(data.players, team[i]) THEN data
    ELSE LET k == PlayerIndex(data.players, team[i])
             p1 == data.players[k]
             q1 == [p1 EXCEPT
                      !.teammates = BumpAll(@, Without(team, i), team_won),
                      !.opponents = BumpAll(@, other_team, team_won)]
         IN  [data EXCEPT !.players[k] = q1]

\* RelateOne for the players lo..hi of team, in list order
RECURSIVE RelateRange(_, _, _, _, _, _)
RelateRange(data, team, other_team, lo, hi, team_won) ==
    IF lo > hi THEN data
    ELSE IF lo = hi THEN RelateOne(data, team, other_team, lo, team_won)
         ELSE Then(RelateRange(data, team, other_team, lo, (lo + hi) \div 2, team_won),
                   LAMBDA d : RelateRange(d, team, other_team,
                                          (lo + hi) \div 2 + 1, hi, team_won))

\* one of the two outer loops: the relations of every player of team
RelateTeam(data, team, other_team, team_won) ==
    RelateRange(data, team, other_team, 1, Len(team), team_won)

update_teammate_opponent_stats(data, match_data) ==
    LET radiant_players == NamedOf(match_data.radiant_players)
        dire_players == NamedOf(match_data.dire_players)
        radiant_won == match_data.winner = "Radiant"
        dire_won == match_data.winner = "Dire"
    IN  Then(RelateTeam(data, radiant_players, dire_players, radiant_won),
             LAMBDA d1 : RelateTeam(d1, dire_players, radiant_players, dire_won))

----------------------------------------------------------------------------
(* Match ledger: the part of each operation between load_data and save_data. *)
(* Each returns [data, ret, saved]: the document, the return value, and     *)
(* whether save_data was called.                                            *)

\* the id taken one past the highest id in use
add_match_FreshId(data, match_data, timestamp) ==
    LET used == {data.matches[i].id : i \in 1..Len(data.matches)}
        match_id == IF used = {} THEN 1
                    ELSE 1 + CHOOSE id \in used : \A other \in used : other <= id
        radiant_players == match_data.radiant_players
        dire_players == match_data.dire_players
        radiant_won == match_data.winner = "Radiant"
        dire_won == match_data.winner = "Dire"
        winner_players == IF radiant_won THEN radiant_players ELSE dire_players
        loser_players == IF radiant_won THEN dire_players ELSE radiant_players
        comp_info == calculate_compensation(data, winner_players, loser_players)
        stored == [id |-> match_id, timestamp |-> timestamp,
                   winner |-> match_data.winner,
                   radiant_players |-> radiant_players,
                   dire_players |-> dire_players,
                   compensation_info |-> comp_info]
        bonus_radiant == IF ~ radiant_won /\ comp_info.compensation > 0
                         THEN comp_info.compensation ELSE 0
        bonus_dire == IF ~ dire_won /\ comp_info.compensation > 0
                      THEN comp_info.compensation ELSE 0
        done(d3) ==
            [data |-> [d3 EXCEPT !.matches = Append(@, stored)],
             ret |-> [match_id |-> match_id, compensation_info |-> comp_info,
                      invalid |-> comp_info.invalid],
             saved |-> TRUE]
    IN  Then(UpdateRoster(data, radiant_players, radiant_won, dire_players, bonus_radiant),
        LAMBDA d1 :
        Then(UpdateRoster(d1, dire_players, dire_won, radiant_players, bonus_dire),
        LAMBDA d2 :
        Then(update_teammate_opponent_stats(d2, stored), done)))

\* the verdict taken after the statistics of the match have been applied
add_match_VerdictAfter(data, match_data, timestamp) ==
    LET match_id == Len(data.matches) + 1
        radiant_players == match_data.radiant_players
        dire_players == match_data.dire_players
        radiant_won == match_data.winner = "Radiant"
        dire_won == match_data.winner = "Dire"
        winner_players == IF radiant_won THEN radiant_players ELSE dire_players
        loser_players == IF radiant_won THEN dire_players ELSE radiant_players
        applied == Then(UpdateRoster(data, radiant_players, radiant_won, dire_players, 0),
                        LAMBDA d1 : UpdateRoster(d1, dire_players, dire_won,
                                                 radiant_players, 0))
        comp_info == calculate_compensation(applied, winner_players, loser_players)
        stored == [id |-> match_id, timestamp |-> timestamp,
                   winner |-> match_data.winner,
                   radiant_players |-> radiant_players,
                   dire_players |-> dire_players,
                   compensation_info |-> comp_info]
        bonus_radiant == IF ~ radiant_won /\ comp_info.compensation > 0
                         THEN comp_info.compensation ELSE 0
        bonus_dire == IF ~ dire_won /\ comp_info.compensation > 0
                      THEN comp_info.compensation ELSE 0
        done(d3) ==
            [data |-> [d3 EXCEPT !.matches = Append(@, stored)],
             ret |-> [match_id |-> match_id, compensation_info |-> comp_info,
                      invalid |-> comp_info.invalid],
             saved |-> TRUE]
    IN  Then(UpdateRoster(data, radiant_players, radiant_won, dire_players, bonus_radiant),
        LAMBDA d1 :
        Then(UpdateRoster(d1, dire_players, dire_won, radiant_players, bonus_dire),
        LAMBDA d2 :
        Then(update_teammate_opponent_stats(d2, stored), done)))

add_match(data, match_data, timestamp) ==
    LET match_id == Len(data.matches) + 1
        radiant_players == match_data.radiant_players
        dire_players == match_data.dire_players
        radiant_won == match_data.winner = "Radiant"
        dire_won == match_data.winner = "Dire"
        winner_players == IF radiant_won THEN radiant_players ELSE dire_players
        loser_players == IF radiant_won THEN dire_players ELSE radiant_players
        comp_info == calculate_compensation(data, winner_players, loser_players)
        stored == [id |-> match_id, timestamp |-> timestamp,
                   winner |-> match_data.winner,
                   radiant_players |-> radiant_players,
                   dire_players |-> dire_players,
                   compensation_info |-> comp_info]
        bonus_radiant == IF ~ radiant_won /\ comp_info.compensation > 0
                         THEN comp_info.compensation ELSE 0
        bonus_dire == IF ~ dire_won /\ comp_info.compensation > 0
                      THEN comp_info.compensation ELSE 0
        done(d3) ==
            [data |-> [d3 EXCEPT !.matches = Append(@, stored)],
             ret |-> [match_id |-> match_id, compensation_info |-> comp_info,
                      invalid |-> comp_info.invalid],
             saved |-> TRUE]
    IN  Then(UpdateRoster(data, radiant_players, radiant_won, dire_players, bonus_radiant),
        LAMBDA d1 :
        Then(UpdateRoster(d1, dire_players, dire_won, radiant_players, bonus_dire),
        LAMBDA d2 :
        Then(update_teammate_opponent_stats(d2, stored), done)))

\* a replay that forgets the stored verdict
StoredCompensation_Zero(match) == 0

\* match.get("compensation_info", {}).get("compensation", 0)
StoredCompensation(match) ==
    IF "compensation_info" \in DOMAIN match
    THEN match.compensation_info.compensation
    ELSE 0

\* a replay that derives each verdict again from the tiers in effect
ReplayMatch_Live(data, match) ==
    LET radiant_players == match.radiant_players
        dire_players == match.dire_players
        radiant_won == match.winner = "Radiant"
        dire_won == match.winner = "Dire"
        winner_players == IF radiant_won THEN radiant_players ELSE dire_players
        loser_players == IF radiant_won THEN dire_players ELSE radiant_players
        compensation ==
            calculate_compensation(data, winner_players, loser_players).compensation
        bonus_radiant == IF ~ radiant_won /\ compensation > 0 THEN compensation ELSE 0
        bonus_dire == IF ~ dire_won /\ compensation > 0 THEN compensation ELSE 0
    IN  Then(UpdateRoster(data, radiant_players, radiant_won, dire_players, bonus_radiant),
        LAMBDA d1 :
        Then(UpdateRoster(d1, dire_players, dire_won, radiant_players, bonus_dire),
        LAMBDA d2 : update_teammate_opponent_stats(d2, match)))

\* the body of the loop of recalculate_all_stats
ReplayMatch(data, match) ==
    LET radiant_players == match.radiant_players
        dire_players == match.dire_players
        radiant_won == match.winner = "Radiant"
        dire_won == match.winner = "Dire"
        compensation == StoredCompensation(match)
        bonus_radiant == IF ~ radiant_won /\ compensation > 0 THEN compensation ELSE 0
        bonus_dire == IF ~ dire_won /\ compensation > 0 THEN compensation ELSE 0
    IN  Then(UpdateRoster(data, radiant_players, radiant_won, dire_players, bonus_radiant),
        LAMBDA d1 :
        Then(UpdateRoster(d1, dire_players, dire_won, radiant_players, bonus_dire),
        LAMBDA d2 : update_teammate_opponent_stats(d2, match)))

\* ReplayMatch for the matches lo..hi of the ledger, in ledger order
RECURSIVE ReplayRange(_, _, _)
ReplayRange(data, lo, hi) ==
    IF lo > hi THEN data
    ELSE IF lo = hi THEN ReplayMatch(data, data.matches[lo])
         ELSE Then(ReplayRange(data, lo, (lo + hi) \div 2),
                   LAMBDA d : ReplayRange(d, (lo + hi) \div 2 + 1, hi))

\* the recomputation starting from a document without overrides
recalculate_all_stats_Reset(data) ==
    Then([matches |-> data.matches, players |-> <<>>, horse_overrides |-> EmptyMap],
         LAMBDA d : ReplayRange(d, 1, Len(d.matches)))

recalculate_all_stats(data) ==
    Then([data EXCEPT !.players = <<>>],
         LAMBDA d : ReplayRange(d, 1, Len(d.matches)))

HasMatch(data, match_id) ==
    \E i \in 1..Len(data.matches) : data.matches[i].id = match_id

\* the match removed, the statistics left as they were
delete_match_NoRecalc(data, match_id) ==
    IF ~ HasMatch(data, match_id)
    THEN [data |-> data, ret |-> FALSE, saved |-> FALSE]
    ELSE LET keep(m) == m.id # match_id
         IN  [data |-> [data EXCEPT !.matches = SelectSeq(@, keep)],
              ret |-> TRUE, saved |-> TRUE]

\* the not-found return left out
delete_match_Unguarded(data, match_id) ==
    LET keep(m) == m.id # match_id
    IN  [data |-> Then([data EXCEPT !.matches = SelectSeq(@, keep)],
                       recalculate_all_stats),
         ret |-> TRUE, saved |-> TRUE]

delete_match(data, match_id) ==
    IF ~ HasMatch(data, match_id)
    THEN [data |-> data, ret |-> FALSE, saved |-> FALSE]
    ELSE LET keep(m) == m.id # match_id
         IN  [data |-> Then([data EXCEPT !.matches = SelectSeq(@, keep)],
                            recalculate_all_stats),
              ret |-> TRUE, saved |-> TRUE]

\* the old match dropped and the new one entered at the end of the ledger
update_match_Moved(data, match_id, match_data) ==
    IF ~ HasMatch(data, match_id)
    THEN [data |-> data, ret |-> FALSE, saved |-> FALSE]
    ELSE LET match_index ==
                 CHOOSE i \in 1..Len(data.matches) :
                     /\ data.matches[i].id = match_id
                     /\ \A j \in 1..(i - 1) : data.matches[j].id # match_id
             stored == [id |-> data.matches[match_index].id,
                        timestamp |-> data.matches[match_index].timestamp,
                        winner |-> match_data.winner,
                        radiant_players |-> match_data.radiant_players,
                        dire_players |-> match_data.dire_players]
         IN  [data |-> Then([data EXCEPT !.matches =
                                Append(Without(@, match_index), stored)],
                            recalculate_all_stats),
              ret |-> TRUE, saved |-> TRUE]

update_match(data, match_id, match_data) ==
    IF ~ HasMatch(data, match_id)
    THEN [data |-> data, ret |-> FALSE, saved |-> FALSE]
    ELSE LET match_index ==
                 CHOOSE i \in 1..Len(data.matches) :
                     /\ data.matches[i].id = match_id
                     /\ \A j \in 1..(i - 1) : data.matches[j].id # match_id
             stored == [id |-> data.matches[match_index].id,
                        timestamp |-> data.matches[match_index].timestamp,
                        winner |-> match_data.winner,
                        radiant_players |-> match_data.radiant_players,
                        dire_players |-> match_data.dire_players]
         IN  [data |-> Then([data EXCEPT !.matches[match_index] = stored],
                            recalculate_all_stats),
              ret |-> TRUE, saved |-> TRUE]

set_horse_level(data, player_name, level) ==
    IF level \notin DOMAIN HORSE_LEVELS
    THEN [data |-> data, ret |-> FALSE, saved |-> FALSE]
    ELSE LET old == Overrides(data)
             new == [n \in DOMAIN old \cup {player_name} |->
                        IF n = player_name THEN level ELSE old[n]]
         IN  [data |-> [matches |-> data.matches, players |-> data.players,
                        horse_overrides |-> new],
              ret |-> TRUE, saved |-> TRUE]

remove_horse_override(data, player_name) ==
    IF player_name \notin DOMAIN Overrides(data)
    THEN [data |-> data, ret |-> FALSE, saved |-> FALSE]
    ELSE LET old == data.horse_overrides
         IN  [data |-> [data EXCEPT !.horse_overrides =
                            [n \in DOMAIN old \ {player_name} |-> old[n]]],
              ret |-> TRUE, saved |-> TRUE]

----------------------------------------------------------------------------
(* The file                                                                *)

\* DATA_FILE right after open(DATA_FILE, 'w'), and with a prefix (or an
\* interleaving of two writers) of json.dump's output in it
Truncated == [bytes |-> "empty"]
Partial == [bytes |-> "partial"]

IsDocument(f) == "matches" \in DOMAIN f

\* json.load raises JSONDecodeError on an empty or partial file
load_data(f) == IF IsDocument(f) THEN f ELSE FallbackDocument

----------------------------------------------------------------------------
(* Read-only queries, on the document load_data returned.  win_rate, a     *)
(* rounded float no property here speaks of, is left out of the rows.      *)

get_all_horse_levels(data) ==
    [name \in {data.players[i].name : i \in 1..Len(data.players)} |->
        get_player_horse_level(data, name)]

\* the rows before the sort: each player's record and its tier fields
PlayerRow(data, p) ==
    Then(get_player_horse_level(data, p.name),
         LAMBDA level :
            [horse_level |-> level,
             horse_value |-> get_horse_value(level),
             is_horse_auto |-> /\ p.total_games >= QualifiedGames
                               /\ p.name \notin DOMAIN Overrides(data)] @@ p)

get_all_players(data) ==
    SortByScoreDesc([i \in 1..Len(data.players) |-> PlayerRow(data, data.players[i])])

\* players of equal score given the same rank
get_leaderboard_SharedRank(data) ==
    Then(get_all_players(data),
         LAMBDA players :
            [i \in 1..Len(players) |->
                [rank |-> 1 + Cardinality({j \in 1..Len(players) :
                                             players[j].score > players[i].score})]
                    @@ players[i]])

get_leaderboard(data) ==
    Then(get_all_players(data),
         LAMBDA players : [i \in 1..Len(players) |-> [rank |-> i] @@ players[i]])

\* get_player_detail: the opponent's wins out of one opponents entry
OpponentWins(stats) == stats.games - stats.wins

\* one team's loop of preview_team_balance: the rows of the named players,
\* their total, and whether each of them has a tier
RECURSIVE PreviewTeam(_, _)
PreviewTeam(data, names) ==
    IF names = <<>> THEN [info |-> <<>>, total |-> 0, classified |-> TRUE]
    ELSE IF names[Len(names)] = NoName
         THEN PreviewTeam(data, SubSeq(names, 1, Len(names) - 1))
         ELSE LET name == names[Len(names)]
                  before == PreviewTeam(data, SubSeq(names, 1, Len(names) - 1))
                  level == get_player_horse_level(data, name)
                  value == get_horse_value(level)
                  worth == IF value # <<>> THEN value[1] ELSE 0
              IN  [info |-> Append(before.info,
                                   [name |-> name, horse_level |-> level,
                                    horse_value |-> worth]),
                   total |-> before.total + worth,
                   classified |-> before.classified /\ level # Unclassified]

Abs(x) == IF x < 0 THEN -x ELSE x

\* the three advisory texts and the empty one: a text is told by its kind
\* and by the difference and the team label formatted into it
Advisory(kind, difference, weak_team) ==
    [kind |-> kind, difference |-> difference, weak_team |-> weak_team]

NoAdvisory == Advisory("", 0, "")

\* the difference taken as radiant minus dire: a weaker Radiant is not warned
preview_team_balance_Signed(data, radiant_names, dire_names) ==
    LET radiant == PreviewTeam(data, radiant_names)
        dire == PreviewTeam(data, dire_names)
        all_classified == radiant.classified /\ dire.classified
        difference == radiant.total - dire.total
    IN  [radiant_score |-> radiant.total,
         dire_score |-> dire.total,
         difference |-> difference,
         radiant_players |-> radiant.info,
         dire_players |-> dire.info,
         warning |-> IF ~ all_classified THEN Advisory("not_active", 0, "")
                     ELSE IF difference >= 2 THEN Advisory("invalid", difference, "")
                     ELSE IF difference = 1
                          THEN Advisory("compensation", difference,
                                        IF radiant.total < dire.total
                                        THEN "Radiant" ELSE "Dire")
                          ELSE NoAdvisory,
         all_classified |-> all_classified]

preview_team_balance(data, radiant_names, dire_names) ==
    LET radiant == PreviewTeam(data, radiant_names)
        dire == PreviewTeam(data, dire_names)
        all_classified == radiant.classified /\ dire.classified
        difference == Abs(radiant.total - dire.total)
    IN  [radiant_score |-> radiant.total,
         dire_score |-> dire.total,
         difference |-> difference,
         radiant_players |-> radiant.info,
         dire_players |-> dire.info,
         warning |-> IF ~ all_classified THEN Advisory("not_active", 0, "")
                     ELSE IF difference >= 2 THEN Advisory("invalid", difference, "")
                     ELSE IF difference = 1
                          THEN Advisory("compensation", difference,
                                        IF radiant.total < dire.total
                                        THEN "Radiant" ELSE "Dire")
                          ELSE NoAdvisory,
         all_classified |-> all_classified]

----------------------------------------------------------------------------
(* Inputs                                                                  *)

App(name, tags) == [name |-> name, tags |-> tags]

Input(winner, radiant, dire) ==
    [winner |-> winner, radiant_players |-> radiant, dire_players |-> dire]

\* a plain duel, teams of two with an entry without a name, a winner that
\* is no team label, and a player listed on both sides; between them every
\* tag on a winner and on a loser
MatchInputs ==
    {Input("Radiant", <<App("a", {})>>, <<App("b", {})>>),
     Input("Dire", <<App("a", {"SVP", "jiang"}), App("c", {"jiang"})>>,
                   <<App("b", {"SVP", "jiang"}), App(NoName, {"MVP"})>>),
     Input("Draw", <<App("a", {"MVP"})>>, <<App("b", {"SVP"})>>),
     Input("Radiant", <<App("a", {"MVP"})>>, <<App("a", {}), App("b", {"SVP"})>>)}

\* what update_match is given: a record unlike any that add_match is given
UpdateInputs ==
    {Input("Dire", <<App("a", {}), App("c", {})>>, <<App("b", {"SVP"})>>)}

\* manual overrides: "a" is made elite, "b" mid or auto; "bogus" is no tier
OverrideInputs ==
    {<<"a", "elite">>, <<"b", "mid">>, <<"b", "auto">>, <<"c", "bogus">>}

\* the ids a request names: those of the matches entered since the window
\* opened, and 0, which no match ever has
IdInputs(data) ==
    {0} \cup {data.matches[i].id :
                i \in {j \in 1..Len(data.matches) : data.matches[j].timestamp > 0}}

----------------------------------------------------------------------------
(* Initial states: an empty league (Init), or one in which "a" has beaten  *)
(* "b" SeedLen times, each game entered through add_match at time 0       *)
(* (InitSeeded).                                                           *)

SeedMatch == Input("Radiant", <<App("a", {})>>, <<App("b", {})>>)

\* add_match called hi - lo + 1 times
RECURSIVE SeedRange(_, _, _)
SeedRange(data, lo, hi) ==
    IF lo > hi THEN data
    ELSE IF lo = hi THEN add_match(data, SeedMatch, 0).data
         ELSE Then(SeedRange(data, lo, (lo + hi) \div 2),
                   LAMBDA d : SeedRange(d, (lo + hi) \div 2 + 1, hi))

SeedDocument == SeedRange(EmptyDocument, 1, SeedLen)

\* what the seeded league is given: the seed game again, and a team match
SeededInputs ==
    {SeedMatch,
     Input("Radiant", <<App("a", {"MVP"}), App("c", {})>>,
                      <<App("b", {"SVP"}), App(NoName, {"MVP"})>>)}

\* the members of a league, in the order they are first entered
LeagueNames ==
    <<"a", "b", "c", "d", "e", "f", "g", "h", "i", "j", "k", "l",
      "m", "n", "o", "p", "q", "r", "s", "t", "u", "v", "w", "x">>

\* a name no document holds
Stranger == "z"

\* the entries of the members whose index satisfies keep, in index order
Members(n, keep(_)) ==
    LET kept == SelectSeq([i \in 1..n |-> i], keep)
    IN  [j \in 1..Len(kept) |-> App(LeagueNames[kept[j]], {})]

\* how many of the QualifiedGames rounds member i wins: i of them when
\* step = 1 (all scores distinct), and as many as a neighbour when step = 2
LeagueWins(i, step) == (i + step - 1) \div step

\* round k of a league of n members: Radiant, always the winner, is made of
\* the members who win this round, Dire of the others; a rookie, member
\* n + 1, wins every round but the last one, which it does not play
LeagueRound(n, step, rookie, k) ==
    LET wins(i) == k <= LeagueWins(i, step)
        loses(i) == ~ wins(i)
    IN  Input("Radiant",
              Members(n, wins) \o (IF rookie /\ k < QualifiedGames
                                   THEN <<App(LeagueNames[n + 1], {})>> ELSE <<>>),
              Members(n, loses))

LeagueSizes == {n \in 1..MaxLeague : n <= SmallLeague \/ n >= MaxLeague - 1}

\* the tiers set by hand in a league: its lowest scorer is made elite
LeagueOverrides == {<<"a", "elite">>, <<"b", "mid">>, <<"b", "auto">>}

\* the rosters whose balance is previewed: in a league of five "e" leads
\* and "a" is last; one roster has an empty name, one a name without record
PreviewInputs ==
    {<<<<"e">>, <<"a">>>>,
     <<<<"a">>, <<"e">>>>,
     <<<<"e">>, <<"c">>>>,
     <<<<"c">>, <<"e", NoName>>>>,
     <<<<"c">>, <<"d">>>>,
     <<<<"e", "a">>, <<"b">>>>,
     <<<<"a">>, <<Stranger>>>>}

\* the ledger holds the first rounds of this league, and nothing else
InLeague(data, n, step, rookie) ==
    \A k \in 1..Len(data.matches) :
        LET m == data.matches[k]
        IN  Input(m.winner, m.radiant_players, m.dire_players)
                = LeagueRound(n, step, rookie, k)

Threads == {"t1", "t2"}

Idle == [pc |-> "idle"]

NoneAcked == [add_match |-> 0, delete_match |-> 0]

NoAnswer == [op |-> "none"]

Init ==
    /\ file = EmptyDocument
    /\ req = [t \in Threads |-> Idle]
    /\ acked = NoneAcked
    /\ passed = {file}
    /\ answer = NoAnswer

InitSeeded ==
    /\ file = SeedDocument
    /\ req = [t \in Threads |-> Idle]
    /\ acked = NoneAcked
    /\ passed = {file}
    /\ answer = NoAnswer

----------------------------------------------------------------------------
(* Requests served one at a time: load_data, the operation, save_data      *)

\* the matches entered since the window opened (the seed is entered at time 0)
NewCount(data) ==
    Cardinality({i \in 1..Len(data.matches) : data.matches[i].timestamp > 0})

\* datetime.now(): the clock as a logical time, one tick past every
\* timestamp the ledger holds
LatestTimestamp(matches) ==
    LET stamps == {matches[i].timestamp : i \in 1..Len(matches)} \cup {0}
    IN  CHOOSE t \in stamps : \A other \in stamps : other <= t

Now(data) == LatestTimestamp(data.matches) + 1

\* the file after a call that ran alone
Saved(r) == IF r.saved THEN r.data ELSE file

AddMatch(match_data) ==
    /\ NewCount(load_data(file)) < MaxNew
    /\ Now(load_data(file)) <= MaxClock
    /\ \E r \in {add_match(load_data(file), match_data, Now(load_data(file)))} : file' = Saved(r)
    /\ answer' = NoAnswer
    /\ UNCHANGED <<req, acked, passed>>

UpdateMatch(match_id, match_data) ==
    /\ \E r \in {update_match(load_data(file), match_id, match_data)} : file' = Saved(r)
    /\ answer' = NoAnswer
    /\ UNCHANGED <<req, acked, passed>>

DeleteMatch(match_id) ==
    /\ \E r \in {delete_match(load_data(file), match_id)} : file' = Saved(r)
    /\ answer' = NoAnswer
    /\ UNCHANGED <<req, acked, passed>>

SetHorseLevel(player_name, level) ==
    /\ \E r \in {set_horse_level(load_data(file), player_name, level)} : file' = Saved(r)
    /\ answer' = NoAnswer
    /\ UNCHANGED <<req, acked, passed>>

RemoveHorseOverride(player_name) ==
    /\ \E r \in {remove_horse_override(load_data(file), player_name)} : file' = Saved(r)
    /\ answer' = NoAnswer
    /\ UNCHANGED <<req, acked, passed>>

Next ==
    \/ \E m \in MatchInputs : AddMatch(m)
    \/ \E id \in IdInputs(load_data(file)), m \in UpdateInputs : UpdateMatch(id, m)
    \/ \E id \in IdInputs(load_data(file)) : DeleteMatch(id)
    \/ \E o \in OverrideInputs : SetHorseLevel(o[1], o[2])
    \/ \E n \in {"a", "b"} : RemoveHorseOverride(n)

Spec == Init /\ [][Next]_vars

\* the same operations on the seeded league
NextSeeded ==
    \/ \E m \in SeededInputs : AddMatch(m)
    \/ \E id \in IdInputs(load_data(file)), m \in UpdateInputs : UpdateMatch(id, m)
    \/ \E id \in IdInputs(load_data(file)) : DeleteMatch(id)
    \/ \E o \in OverrideInputs : SetHorseLevel(o[1], o[2])
    \/ \E n \in {"a", "b"} : RemoveHorseOverride(n)

SpecSeeded == InitSeeded /\ [][NextSeeded]_vars

\* the read-only requests: what they return is kept in answer
GetPlayerHorseLevel(player_name) ==
    /\ answer' = [op |-> "get_player_horse_level", arg |-> player_name,
                  ret |-> get_player_horse_level(load_data(file), player_name)]
    /\ UNCHANGED <<file, req, acked, passed>>

GetLeaderboard ==
    /\ answer' = [op |-> "get_leaderboard", ret |-> get_leaderboard(load_data(file))]
    /\ UNCHANGED <<file, req, acked, passed>>

PreviewTeamBalance(radiant_names, dire_names) ==
    /\ answer' = [op |-> "preview_team_balance",
                  arg |-> <<radiant_names, dire_names>>,
                  ret |-> preview_team_balance(load_data(file), radiant_names, dire_names)]
    /\ UNCHANGED <<file, req, acked, passed>>

\* the next round of a league is entered
PlayRound(n, step, rookie) ==
    /\ Len(load_data(file).matches) < QualifiedGames
    /\ InLeague(load_data(file), n, step, rookie)
    /\ \E r \in {add_match(load_data(file),
                            LeagueRound(n, step, rookie, Len(load_data(file).matches) + 1),
                            Now(load_data(file)))} : file' = Saved(r)
    /\ answer' = NoAnswer
    /\ UNCHANGED <<req, acked, passed>>

SeasonOver == Len(load_data(file).matches) = QualifiedGames

\* a league plays its QualifiedGames rounds, and tiers and the leaderboard
\* are read; once the rounds are played, tiers are set and cleared by hand
NextLeague ==
    \/ \E n \in LeagueSizes, step \in {1, 2}, rookie \in BOOLEAN :
            PlayRound(n, step, rookie)
    \/ \E o \in LeagueOverrides : SeasonOver /\ SetHorseLevel(o[1], o[2])
    \/ \E n \in {"a", "b"} : SeasonOver /\ RemoveHorseOverride(n)
    \/ \E n \in DOMAIN get_all_horse_levels(load_data(file)) \cup {Stranger} :
            GetPlayerHorseLevel(n)
    \/ GetLeaderboard
    \/ \E b \in PreviewInputs : PreviewTeamBalance(b[1], b[2])

SpecLeague == Init /\ [][NextLeague]_vars

----------------------------------------------------------------------------
(* Requests served by concurrent threads (app.run serves each request on   *)
(* its own thread and database.py takes no lock): load_data, the operation *)
(* and the steps of save_data are separate steps of a thread.              *)
(*   save_data: open(DATA_FILE, 'w') truncates the file; json.dump writes  *)
(*   through a buffer that is flushed when it fills and at close.          *)

ConcInputs ==
    {Input("Radiant", <<App("a", {})>>, <<App("b", {})>>),
     Input("Dire", <<App("a", {})>>, <<App("c", {})>>)}

InFlight(op) == Cardinality({t \in Threads : req[t].pc # "idle" /\ req[t].op = op})

\* another writer touched the file: what t has written, or will write,
\* no longer lands in a file that holds only t's bytes
Disturb(t, r) ==
    [u \in Threads |->
        IF u = t THEN r
        ELSE IF req[u].pc = "opened" THEN [req[u] EXCEPT !.clean = FALSE]
        ELSE req[u]]

\* data = load_data()
Load(t, op, arg) ==
    /\ req[t].pc = "idle"
    /\ acked[op] + InFlight(op) < MaxNew
    /\ req' = [req EXCEPT ![t] =
                 [pc |-> "loaded", op |-> op, arg |-> arg, data |-> load_data(file)]]
    /\ UNCHANGED <<file, acked, passed, answer>>

Result(t) ==
    IF req[t].op = "add_match"
    THEN add_match(req[t].data, req[t].arg, Now(req[t].data))
    ELSE delete_match(req[t].data, req[t].arg)

\* the operation on the thread's own document, then either the return
\* without a save, or save_data's open(DATA_FILE, 'w')
Operate(t) ==
    /\ req[t].pc = "loaded"
    /\ \E r \in {Result(t)} :
           IF r.saved
           THEN /\ file' = Truncated
                /\ passed' = passed \cup {r.data}
                /\ req' = Disturb(t, [pc |-> "opened", op |-> req[t].op,
                                      data |-> r.data, clean |-> TRUE])
           ELSE /\ req' = [req EXCEPT ![t] = Idle]
                /\ UNCHANGED <<file, passed>>
    /\ UNCHANGED <<acked, answer>>

\* json.dump's buffer is flushed before the document is complete
Flush(t) ==
    /\ req[t].pc = "opened"
    /\ file' = Partial
    /\ req' = Disturb(t, req[t])
    /\ UNCHANGED <<acked, passed, answer>>

\* the with block closes the file and the call returns. A writer that ran
\* alone leaves its document; one that ran beside another writer leaves its
\* document or a mixture of the two that is no JSON document.
Close(t) ==
    /\ req[t].pc = "opened"
    /\ file' \in (IF req[t].clean THEN {req[t].data} ELSE {req[t].data, Partial})
    /\ req' = Disturb(t, Idle)
    /\ acked' = [acked EXCEPT ![req[t].op] = @ + 1]
    /\ UNCHANGED <<passed, answer>>

NextConc ==
    \/ \E t \in Threads, m \in ConcInputs : Load(t, "add_match", m)
    \/ \E t \in Threads, id \in {1, 2} : Load(t, "delete_match", id)
    \/ \E t \in Threads : Operate(t)
    \/ \E t \in Threads : Flush(t)
    \/ \E t \in Threads : Close(t)

SpecConc == Init /\ [][NextConc]_vars

----------------------------------------------------------------------------
(* Vocabulary of the properties                                            *)

\* the players mapping as a mapping: name -> record, whatever the order
StatsOf(players) ==
    [n \in {players[i].name : i \in 1..Len(players)} |-> PlayerOf(players, n)]

ScoreOf(players, n) == IF HasPlayer(players, n) THEN PlayerOf(players, n).score ELSE 0

GamesOf(players, n) ==
    IF HasPlayer(players, n) THEN PlayerOf(players, n).total_games ELSE 0

LastMatch(data) == data.matches[Len(data.matches)]

\* the points, in half points, the scoring rules give one appearance
BasePoints(tags, won) ==
    IF won THEN (IF "MVP" \in tags THEN 3 ELSE 2)
    ELSE IF "SVP" \in tags /\ "jiang" \in tags THEN -2
    ELSE IF "SVP" \in tags THEN -1
    ELSE IF "jiang" \in tags THEN -3
    ELSE -2

\* the points of n's appearances in one roster; an appearance on a side
\* that did not win also gets the compensation
RECURSIVE SidePoints(_, _, _, _)
SidePoints(roster, n, won, compensation) ==
    IF roster = <<>> THEN 0
    ELSE (IF Head(roster).name = n
          THEN BasePoints(Head(roster).tags, won) + (IF won THEN 0 ELSE compensation)
          ELSE 0)
         + SidePoints(Tail(roster), n, won, compensation)

MatchPoints(m, n, compensation) ==
    SidePoints(m.radiant_players, n, m.winner = "Radiant", compensation)
        + SidePoints(m.dire_players, n, m.winner = "Dire", compensation)

\* the compensation of the verdict stored on m, none when m carries no verdict
VerdictCompensation(m) ==
    IF "compensation_info" \in DOMAIN m THEN m.compensation_info.compensation ELSE 0

\* the points of n over a ledger, each match with its stored compensation
RECURSIVE LedgerPoints(_, _)
LedgerPoints(matches, n) ==
    IF matches = <<>> THEN 0
    ELSE MatchPoints(Head(matches), n, VerdictCompensation(Head(matches)))
             + LedgerPoints(Tail(matches), n)

\* the number of n's appearances in m
Appearances(m, n) ==
    Cardinality({i \in 1..Len(m.radiant_players) : m.radiant_players[i].name = n})
        + Cardinality({i \in 1..Len(m.dire_players) : m.dire_players[i].name = n})

\* the side the verdict takes as the winners, and the other one
WinnerSide(m) == IF m.winner = "Radiant" THEN m.radiant_players ELSE m.dire_players
LoserSide(m) == IF m.winner = "Radiant" THEN m.dire_players ELSE m.radiant_players

\* n has a tier: an override, or at least 20 games
TierKnown(data, n) ==
    \/ n \in DOMAIN Overrides(data)
    \/ GamesOf(data.players, n) >= QualifiedGames

AllNamedKnown(data, m) ==
    \A side \in {m.radiant_players, m.dire_players} :
        \A i \in 1..Len(side) : side[i].name # NoName => TierKnown(data, side[i].name)

TierValue(level) ==
    IF level = "elite" THEN 1 ELSE IF level = "auto" THEN -1 ELSE 0

RECURSIVE TeamValue(_, _)
TeamValue(data, roster) ==
    IF roster = <<>> THEN 0
    ELSE (IF Head(roster).name = NoName THEN 0
          ELSE TierValue(get_player_horse_level(data, Head(roster).name)))
         + TeamValue(data, Tail(roster))

\* winning-team value minus losing-team value
StrengthGap(data, m) == TeamValue(data, WinnerSide(m)) - TeamValue(data, LoserSide(m))

\* the verdict a fresh evaluation gives m in data
LiveCompensation(data, m) ==
    calculate_compensation(data, WinnerSide(m), LoserSide(m)).compensation

\* every named player's score grew by the points of m, games by appearances
ScoredBy(m, compensation) ==
    \A n \in Names :
        /\ ScoreOf(file'.players, n)
              = ScoreOf(file.players, n) + MatchPoints(m, n, compensation)
        /\ GamesOf(file'.players, n) = GamesOf(file.players, n) + Appearances(m, n)

----------------------------------------------------------------------------
(* C1: after any sequence of add_match, update_match and delete_match the  *)
(* stored players mapping equals the mapping obtained from an empty one by *)
(* replaying every stored match in ledger order with its stored            *)
(* compensation value.                                                     *)
C1_StatsEqualReplay ==
    file.players = recalculate_all_stats(file).players

\* a match entered with a compensation and a match replaced by update_match
\* are stored
C1_Witness ==
    /\ Len(file.matches) >= 2
    /\ \E i \in 1..Len(file.matches) : StoredCompensation(file.matches[i]) = 1
    /\ \E i \in 1..Len(file.matches) : "compensation_info" \notin DOMAIN file.matches[i]

----------------------------------------------------------------------------
(* C2: for every player record wins + losses = total_games, in every state *)
(* reachable by add_match, update_match and delete_match.                  *)
C2_WinsPlusLosses ==
    \A i \in 1..Len(file.players) :
        file.players[i].wins + file.players[i].losses = file.players[i].total_games

\* a player who has won and lost; the match with id 1 was deleted, and a
\* match was entered after that
C2_Witness ==
    /\ Len(file.matches) = 2
    /\ file.matches[1].id # 1
    /\ \E i \in 1..Len(file.players) :
           file.players[i].wins >= 1 /\ file.players[i].losses >= 1

----------------------------------------------------------------------------
(* C3, as stated: for any stored match m, delete_match(m.id) immediately   *)
(* followed by add_match of a record with m's winner, rosters and tags     *)
(* leaves every player's statistics as they were before the delete.        *)

\* the record a caller builds from the stored match m
EquivalentInput(m) == Input(m.winner, m.radiant_players, m.dire_players)

\* delete_match(m.id), then add_match of the equivalent record
DeleteThenReAdd(data, m) ==
    Then(delete_match(data, m.id).data,
         LAMBDA d1 : add_match(d1, EquivalentInput(m), Now(d1)))

C3_DeleteThenReAdd ==
    \A i \in 1..Len(file.matches) :
        StatsOf(DeleteThenReAdd(file, file.matches[i]).data.players)
            = StatsOf(file.players)

\* a player's record without its score
Counts(p) ==
    [total_games |-> p.total_games, wins |-> p.wins, losses |-> p.losses,
     mvp_count |-> p.mvp_count, svp_count |-> p.svp_count,
     jiang_count |-> p.jiang_count,
     teammates |-> p.teammates, opponents |-> p.opponents]

CountsOf(players) ==
    [n \in {players[i].name : i \in 1..Len(players)} |-> Counts(PlayerOf(players, n))]

\* m is the only stored match with its id: delete_match removes m alone
RemovedAlone(data, m) ==
    Cardinality({j \in 1..Len(data.matches) : data.matches[j].id = m.id}) = 1

\* the ledger delete_match(m.id) leaves, followed by m with the verdict v
LeftThenReAdded(data, m, v) ==
    LET keep(x) == x.id # m.id
    IN  SelectSeq(data.matches, keep)
            \o <<[id |-> m.id, timestamp |-> m.timestamp, winner |-> m.winner,
                  radiant_players |-> m.radiant_players,
                  dire_players |-> m.dire_players, compensation_info |-> v]>>

(* C3, amended: delete_match(m.id) followed by add_match of the equivalent *)
(* record yields the statistics of a replay of the matches the delete left *)
(* followed by m scored with the verdict the re-add computes; when the     *)
(* delete removed m alone, games, wins, losses, tag counts and relations   *)
(* are those before the delete, and the scores are too when the re-add's   *)
(* compensation equals the one stored on m.                                *)
C3_ReAddReplaysFreshVerdict ==
    \A i \in 1..Len(file.matches) :
        LET m == file.matches[i]
            r == DeleteThenReAdd(file, m)
            v == r.ret.compensation_info
            replayed == recalculate_all_stats(
                            [file EXCEPT !.matches = LeftThenReAdded(file, m, v)])
        IN  /\ StatsOf(r.data.players) = StatsOf(replayed.players)
            /\ RemovedAlone(file, m)
                   => /\ CountsOf(r.data.players) = CountsOf(file.players)
                      /\ v.compensation = StoredCompensation(m)
                             => StatsOf(r.data.players) = StatsOf(file.players)

\* two matches are stored; one of them was entered with a compensation, is
\* removed alone, and gets the same compensation when it is entered again
C3_Witness ==
    /\ Len(file.matches) >= 2
    /\ \E i \in 1..Len(file.matches) :
           LET m == file.matches[i]
           IN  /\ RemovedAlone(file, m)
               /\ StoredCompensation(m) = 1
               /\ DeleteThenReAdd(file, m).ret.compensation_info.compensation = 1

----------------------------------------------------------------------------
(* C4: concurrent mutating requests lose no update: once every request has *)
(* returned, none of them was a delete and the file holds a document, the  *)
(* stored ledger holds one match for every add_match that returned, and    *)
(* "a", who plays in every one of them, has that many games.               *)
C4_NoLostUpdate ==
    (/\ \A t \in Threads : req[t].pc = "idle"
     /\ acked.delete_match = 0
     /\ IsDocument(file))
        => /\ Len(file.matches) = acked.add_match
           /\ GamesOf(file.players, "a") = acked.add_match

----------------------------------------------------------------------------
(* C5: a read sees a complete, previously written snapshot: the document a *)
(* load_data returns was passed to save_data earlier (or is the one        *)
(* init_database wrote), also when the load overlaps a save_data.          *)
C5_ReadSeesSavedSnapshot ==
    \A t \in Threads : req[t].pc = "loaded" => req[t].data \in passed

----------------------------------------------------------------------------
(* C6: a delete_match that succeeds (the ledger gets shorter) leaves every  *)
(* remaining match as it was stored, compensation_info included, and every *)
(* player's score afterwards is the sum of the points of the remaining     *)
(* matches, each with its stored compensation.                             *)
C6_DeleteReplaysStoredVerdicts ==
    [][\A id \in IdInputs(file) :
          (/\ Len(file'.matches) < Len(file.matches)
           /\ HasMatch(file, id)
           /\ DeleteMatch(id))
              => /\ LET keep(m) == m.id # id
                    IN  file'.matches = SelectSeq(file.matches, keep)
                 /\ \A n \in Names :
                        ScoreOf(file'.players, n) = LedgerPoints(file'.matches, n)]_vars

\* the match with id 1 was deleted, and the match that remains has a stored
\* compensation that a fresh evaluation on the tiers in effect would not give
C6_Witness ==
    /\ Len(file.matches) = 1
    /\ file.matches[1].id # 1
    /\ VerdictCompensation(file.matches[1]) = 1
    /\ LiveCompensation(file, file.matches[1]) = 0

----------------------------------------------------------------------------
(* C7: when every named player has a tier and the winners are stronger by  *)
(* two or more, add_match returns a verdict with invalid = true and no     *)
(* compensation, and still appends the match, with that verdict, and       *)
(* scores it; in every verdict invalid = true implies compensation = 0.    *)
C7_InvalidWhenStrongerByTwo ==
    [][\A m \in MatchInputs :
          AddMatch(m)
              => LET ret == add_match(file, m, Now(file)).ret
                     v == ret.compensation_info
                 IN  /\ (v.invalid => v.compensation = 0)
                     /\ (AllNamedKnown(file, m) /\ StrengthGap(file, m) >= 2)
                            => /\ v.invalid
                               /\ v.compensation = 0
                               /\ ret.invalid
                               /\ Len(file'.matches) = Len(file.matches) + 1
                               /\ SubSeq(file'.matches, 1, Len(file.matches))
                                      = file.matches
                               /\ EquivalentInput(LastMatch(file')) = m
                               /\ LastMatch(file').compensation_info = v
                               /\ ScoredBy(m, 0)]_vars

\* the match entered last is one of an elite winner against an auto loser
C7_Witness ==
    /\ file.matches # <<>>
    /\ "compensation_info" \in DOMAIN LastMatch(file)
    /\ LastMatch(file).compensation_info.invalid
    /\ LastMatch(file).compensation_info.difference >= 2
    /\ LastMatch(file).id = Len(file.matches)

----------------------------------------------------------------------------
(* C8: when every named player has a tier and the winners are stronger by  *)
(* exactly one, the verdict has compensation 0.5 and is not invalid, every *)
(* appearance on the side that did not win gets 0.5 on top of its points   *)
(* and no appearance on the winning side gets any; when the winners are    *)
(* not stronger nobody gets a compensation.                                *)
C8_HalfPointWhenStrongerByOne ==
    [][\A m \in MatchInputs :
          (AddMatch(m) /\ AllNamedKnown(file, m))
              => LET v == add_match(file, m, Now(file)).ret.compensation_info
                 IN  /\ StrengthGap(file, m) = 1
                            => /\ v.compensation = 1
                               /\ ~ v.invalid
                               /\ ScoredBy(m, 1)
                     /\ StrengthGap(file, m) <= 0
                            => /\ v.compensation = 0
                               /\ ~ v.invalid
                               /\ ScoredBy(m, 0)]_vars

\* the only match entered: elite "a" beat mid "b", who nets -0.5
C8_Witness ==
    /\ Len(file.matches) = 1
    /\ file.matches[1].id = 1
    /\ "compensation_info" \in DOMAIN file.matches[1]
    /\ file.matches[1].compensation_info.difference = 1
    /\ file.matches[1].compensation_info.compensation = 1
    /\ ScoreOf(file.players, "a") = 2
    /\ ScoreOf(file.players, "b") = -1

----------------------------------------------------------------------------
(* C9: the verdict add_match returns has all_classified = true iff every   *)
(* named player of both rosters has an override or at least 20 games; when *)
(* it is false the verdict has no compensation and is not invalid, and no  *)
(* player gets a compensation.                                             *)
C9_AllClassifiedIffEveryTierKnown ==
    [][\A m \in SeededInputs :
          AddMatch(m)
              => LET v == add_match(file, m, Now(file)).ret.compensation_info
                 IN  /\ v.all_classified <=> AllNamedKnown(file, m)
                     /\ ~ v.all_classified
                            => /\ v.compensation = 0
                               /\ ~ v.invalid
                               /\ ScoredBy(m, 0)]_vars

\* the match entered last has "a" with more than 20 games, "b" with an
\* override and "c" without a tier; the team values differ, the rule is off
C9_Witness ==
    /\ "compensation_info" \in DOMAIN LastMatch(file)
    /\ ~ LastMatch(file).compensation_info.all_classified
    /\ LastMatch(file).timestamp > 0
    /\ GamesOf(file.players, "a") > QualifiedGames
    /\ "b" \in DOMAIN Overrides(file)
    /\ Appearances(LastMatch(file), "c") = 1
    /\ StrengthGap(file, LastMatch(file)) # 0

----------------------------------------------------------------------------
(* C10: with no compensation, an appearance changes the score by +1 for a  *)
(* win, +1.5 for a win tagged MVP, -1 for a loss, -0.5 for a loss tagged   *)
(* SVP, -1.5 for a loss tagged frozen, -1.0 for a loss tagged both; SVP or *)
(* frozen on a winner and MVP on a loser change nothing.                   *)
C10_PointsPerAppearance ==
    [][\A m \in MatchInputs :
          (AddMatch(m)
             /\ add_match(file, m, Now(file)).ret.compensation_info.compensation = 0)
              => ScoredBy(m, 0)]_vars

\* the only match entered: "b" won tagged SVP and frozen, "a" lost tagged
\* SVP and frozen, "c" lost tagged frozen
C10_Witness ==
    /\ Len(file.matches) = 1
    /\ "compensation_info" \in DOMAIN file.matches[1]
    /\ file.matches[1].compensation_info.compensation = 0
    /\ ScoreOf(file.players, "b") = 2
    /\ ScoreOf(file.players, "a") = -2
    /\ ScoreOf(file.players, "c") = -3

----------------------------------------------------------------------------
(* Vocabulary of the tier properties                                       *)

\* the positions, in the players mapping, of the qualified players
Qualified(data) ==
    {i \in 1..Len(data.players) : data.players[i].total_games >= QualifiedGames}

IsQualified(data, n) ==
    HasPlayer(data.players, n) /\ PlayerIndex(data.players, n) \in Qualified(data)

Overridden(data, n) == n \in DOMAIN Overrides(data)

\* the 1-based rank of the qualified player n, score descending: one more
\* than the number of qualified players with a higher score, or with the
\* same score and an earlier place in the mapping
RankOf(data, n) ==
    LET me == PlayerIndex(data.players, n)
        ahead(j) == \/ data.players[j].score > data.players[me].score
                    \/ /\ data.players[j].score = data.players[me].score
                       /\ j < me
    IN  1 + Cardinality({j \in Qualified(data) : ahead(j)})

DistinctScores(data) ==
    \A i, j \in Qualified(data) :
        i # j => data.players[i].score # data.players[j].score

\* the unoverridden qualified players of a tier
TierMembers(data, level) ==
    {i \in Qualified(data) :
        /\ ~ Overridden(data, data.players[i].name)
        /\ get_player_horse_level(data, data.players[i].name) = level}

\* every player of X has a higher score than every player of Y
Above(data, X, Y) ==
    \A i \in X, j \in Y : data.players[i].score > data.players[j].score

\* C11: a qualified player without override, of rank r among the N
\* qualified players, is elite iff 5r <= N, mid iff N < 5r <= 4N and auto
\* otherwise; when 20 players are qualified, with distinct scores and no
\* override, the 4 highest are elite, the next 12 mid and the lowest 4 auto.
C11_TierByRank ==
    LET data == load_data(file)
        N == Cardinality(Qualified(data))
    IN  /\ \A i \in Qualified(data) :
            LET n == data.players[i].name
                r == RankOf(data, n)
                tier == get_player_horse_level(data, n)
            IN  ~ Overridden(data, n) =>
                    /\ tier = "elite" <=> 5 * r <= N
                    /\ tier = "mid" <=> (N < 5 * r /\ 5 * r <= 4 * N)
                    /\ tier = "auto" <=> 4 * N < 5 * r
        /\ (N = 20 /\ DistinctScores(data) /\ DOMAIN Overrides(data) = {}) =>
                /\ Cardinality(TierMembers(data, "elite")) = 4
                /\ Cardinality(TierMembers(data, "mid")) = 12
                /\ Cardinality(TierMembers(data, "auto")) = 4
                /\ Above(data, TierMembers(data, "elite"), TierMembers(data, "mid"))
                /\ Above(data, TierMembers(data, "mid"), TierMembers(data, "auto"))

\* twenty qualified players with distinct scores and no override, and the
\* tier of the fourth best of them has just been read: elite
C11_Witness ==
    LET data == load_data(file)
    IN  /\ Cardinality(Qualified(data)) = 20
        /\ DistinctScores(data)
        /\ DOMAIN Overrides(data) = {}
        /\ answer.op = "get_player_horse_level"
        /\ IsQualified(data, answer.arg)
        /\ RankOf(data, answer.arg) = 4
        /\ answer.ret = "elite"

----------------------------------------------------------------------------
\* rosters of at most one entry, named or not
ShortRosters ==
    {<<>>} \cup {<<App(n, {})>> : n \in Names \cup {NoName}}

----------------------------------------------------------------------------
\* C13: a player without override and with fewer than 20 games, or without
\* any record, has the empty tier, which is not mid and has no value; added
\* to a roster the player leaves the team value as it was and makes
\* all_classified false.
C13_UnqualifiedHasNoTier ==
    LET data == load_data(file)
    IN  \A n \in DOMAIN get_all_horse_levels(data) \cup Names \cup {Stranger} :
            (~ Overridden(data, n) /\ ~ IsQualified(data, n)) =>
                /\ get_player_horse_level(data, n) = Unclassified
                /\ get_player_horse_level(data, n) # "mid"
                /\ get_horse_value(get_player_horse_level(data, n)) = <<>>
                /\ \A roster \in ShortRosters :
                        LET with == Append(roster, App(n, {}))
                        IN  /\ calculate_team_score(data, with)
                                  = calculate_team_score(data, roster)
                            /\ ~ AllClassified(data, with)
                            /\ ~ calculate_compensation(data, with, <<>>).all_classified

\* twenty players are qualified and a rookie of 19 games has a higher score
\* than any of them; the tier of the rookie has just been read: empty
C13_Witness ==
    LET data == load_data(file)
    IN  /\ Cardinality(Qualified(data)) = 20
        /\ answer.op = "get_player_horse_level"
        /\ HasPlayer(data.players, answer.arg)
        /\ GamesOf(data.players, answer.arg) = QualifiedGames - 1
        /\ \A i \in Qualified(data) :
                data.players[i].score < ScoreOf(data.players, answer.arg)
        /\ ~ Overridden(data, answer.arg)
        /\ answer.ret = Unclassified

----------------------------------------------------------------------------
\* the ids up to one past the ledger's length that no stored match has
UnknownIds(data) ==
    {id \in 0..(Len(data.matches) + 1) : ~ HasMatch(data, id)}

\* C14: delete_match and update_match, given an id no stored match has,
\* return false, and the ledger, the players and the overrides stay as they
\* were (nothing is saved).
C14_UnknownIdRefused ==
    LET data == load_data(file)
        refused == [data |-> data, ret |-> FALSE, saved |-> FALSE]
    IN  \A id \in UnknownIds(data) :
            /\ delete_match(data, id) = refused
            /\ \A m \in UpdateInputs : update_match(data, id, m) = refused

\* match 1 was deleted from a ledger that still holds a match, players and
\* an override: deleting or updating match 1 is refused
C14_Witness ==
    /\ file.matches # <<>> /\ file.players # <<>>
    /\ DOMAIN Overrides(file) # {}
    /\ ~ HasMatch(file, 1)
    /\ ~ delete_match(file, 1).ret
    /\ \A m \in UpdateInputs : ~ update_match(file, 1, m).ret

----------------------------------------------------------------------------
\* the ledger after is the ledger before but for position i, where the
\* match has the content of m under the id and timestamp it had
ReplacedAt(before, after, i, m) ==
    /\ Len(after) = Len(before)
    /\ \A j \in 1..Len(before) : j # i => after[j] = before[j]
    /\ after[i].id = before[i].id
    /\ after[i].timestamp = before[i].timestamp
    /\ Input(after[i].winner, after[i].radiant_players, after[i].dire_players) = m

\* C15: update_match on the id of a stored match returns true and replaces
\* that match in place, under its original id and timestamp and at its
\* position, every other match staying as it was; the players mapping
\* afterwards is the recomputation over the updated ledger, every score the
\* sum of the points of the ledger's matches.
C15_UpdateInPlace ==
    LET data == load_data(file)
    IN  \A id \in IdInputs(data), m \in UpdateInputs :
            HasMatch(data, id) =>
                LET r == update_match(data, id, m)
                IN  /\ r.ret /\ r.saved
                    /\ \E i \in 1..Len(data.matches) :
                          /\ data.matches[i].id = id
                          /\ ReplacedAt(data.matches, r.data.matches, i, m)
                    /\ r.data.players = recalculate_all_stats(r.data).players
                    /\ \A n \in Names :
                          ScoreOf(r.data.players, n) = LedgerPoints(r.data.matches, n)
                    /\ Overrides(r.data) = Overrides(data)

\* the first of the two matches entered after the seed has been replaced:
\* it has its id and timestamp and the content update_match was given, the
\* match after it and the seed game before it are as they were entered
C15_Witness ==
    /\ Len(file.matches) = SeedLen + 2
    /\ file.matches[SeedLen + 1].id = SeedLen + 1
    /\ file.matches[SeedLen + 1].timestamp = 1
    /\ \E m \in UpdateInputs :
          Input(file.matches[SeedLen + 1].winner,
                file.matches[SeedLen + 1].radiant_players,
                file.matches[SeedLen + 1].dire_players) = m
    /\ "compensation_info" \notin DOMAIN file.matches[SeedLen + 1]
    /\ file.matches[SeedLen + 2].id = SeedLen + 2
    /\ "compensation_info" \in DOMAIN file.matches[SeedLen + 2]
    /\ file.matches[SeedLen].timestamp = 0
    /\ EquivalentInput(file.matches[SeedLen]) = SeedMatch

----------------------------------------------------------------------------
\* C16: add_match gives the new match the id (number of stored matches) + 1
\* and appends it as the last match of the ledger, the matches before it
\* staying as they were; it returns that id and the verdict of the team
\* balance evaluator, which is the compensation_info stored on the match.
C16_AddAppendsWithCountId ==
    [][\A m \in MatchInputs :
          AddMatch(m) =>
              LET r == add_match(file, m, Now(file)).ret
              IN  /\ r.match_id = Len(file.matches) + 1
                  /\ Len(file'.matches) = Len(file.matches) + 1
                  /\ SubSeq(file'.matches, 1, Len(file.matches)) = file.matches
                  /\ LastMatch(file').id = r.match_id
                  /\ EquivalentInput(LastMatch(file')) = m
                  /\ LastMatch(file').compensation_info = r.compensation_info
                  /\ r.compensation_info
                        = calculate_compensation(file, WinnerSide(m), LoserSide(m))
                  /\ r.invalid = r.compensation_info.invalid]_vars

\* a match was entered after match 1 had been deleted: it is the second
\* match of the ledger and has id 2, the id of the match before it
C16_Witness ==
    /\ Len(file.matches) = 2
    /\ file.matches[1].id = 2
    /\ LastMatch(file).id = 2
    /\ "compensation_info" \in DOMAIN LastMatch(file)
    /\ LastMatch(file).timestamp > file.matches[1].timestamp

----------------------------------------------------------------------------
\* what the relation rel of a player record holds for the name y, an absent
\* entry counting as no game and no win
RelationTo(rel, y) ==
    IF y \in DOMAIN rel THEN rel[y] ELSE [games |-> 0, wins |-> 0]

\* C17: in every state reached by add_match, update_match and delete_match,
\* any two players x and y with records have played as many games as
\* teammates, and won as many of them, by x's record as by y's.
C17_TeammatesSymmetric ==
    \A i, j \in 1..Len(file.players) :
        LET x == file.players[i]
            y == file.players[j]
        IN  /\ RelationTo(x.teammates, y.name).games
                  = RelationTo(y.teammates, x.name).games
            /\ RelationTo(x.teammates, y.name).wins
                  = RelationTo(y.teammates, x.name).wins

\* "a" and "c" have played two games together and won one of them: one
\* entered by add_match, one put in the place of a duel by update_match
C17_Witness ==
    /\ HasPlayer(file.players, "a") /\ HasPlayer(file.players, "c")
    /\ RelationTo(PlayerOf(file.players, "a").teammates, "c") = [games |-> 2, wins |-> 1]
    /\ RelationTo(PlayerOf(file.players, "c").teammates, "a") = [games |-> 2, wins |-> 1]
    /\ \E i \in 1..Len(file.matches) : "compensation_info" \notin DOMAIN file.matches[i]

----------------------------------------------------------------------------
\* the number of n's appearances in m that carry the tag
TaggedAppearances(m, n, tag) ==
    LET tagged(roster) == {i \in 1..Len(roster) :
                              roster[i].name = n /\ tag \in roster[i].tags}
    IN  Cardinality(tagged(m.radiant_players)) + Cardinality(tagged(m.dire_players))

RECURSIVE TagTotal(_, _, _)
TagTotal(matches, n, tag) ==
    IF matches = <<>> THEN 0
    ELSE TaggedAppearances(Head(matches), n, tag) + TagTotal(Tail(matches), n, tag)

\* C18: mvp_count, svp_count and jiang_count of a player are the numbers of
\* the player's appearances in the ledger that carry the tag, on a winning
\* or a losing side alike, and none of them exceeds total_games.
C18_TagCounts ==
    \A i \in 1..Len(file.players) :
        LET p == file.players[i]
        IN  /\ p.mvp_count = TagTotal(file.matches, p.name, "MVP")
            /\ p.svp_count = TagTotal(file.matches, p.name, "SVP")
            /\ p.jiang_count = TagTotal(file.matches, p.name, "jiang")
            /\ p.mvp_count <= p.total_games
            /\ p.svp_count <= p.total_games
            /\ p.jiang_count <= p.total_games

\* "a" never won and was MVP once; "b" was SVP in both of its games, one of
\* them won, frozen in that one too
C18_Witness ==
    /\ HasPlayer(file.players, "a") /\ HasPlayer(file.players, "b")
    /\ PlayerOf(file.players, "a").wins = 0
    /\ PlayerOf(file.players, "a").mvp_count = 1
    /\ PlayerOf(file.players, "b").total_games = 2
    /\ PlayerOf(file.players, "b").wins = 1
    /\ PlayerOf(file.players, "b").svp_count = 2
    /\ PlayerOf(file.players, "b").jiang_count = 1

----------------------------------------------------------------------------
\* m without its entries of empty name
Stripped(m) ==
    LET named(p) == p.name # NoName
    IN  Input(m.winner, SelectSeq(m.radiant_players, named),
              SelectSeq(m.dire_players, named))

HasEmptyEntry(m) == Stripped(m) # Input(m.winner, m.radiant_players, m.dire_players)

\* no record is keyed by the empty name, and no relation map has it as key
EmptyNameAbsent(players) ==
    \A i \in 1..Len(players) :
        /\ players[i].name # NoName
        /\ NoName \notin DOMAIN players[i].teammates
        /\ NoName \notin DOMAIN players[i].opponents

\* C19: a roster entry with an empty name is skipped: add_match returns the
\* id and the verdict it returns for the match without the entry and leaves
\* the players mapping it leaves for that match, the match being stored as
\* given; no record and no teammates or opponents entry is ever keyed by the
\* empty name; an empty entry added to a roster changes no verdict.
C19_EmptyNameSkipped ==
    LET data == load_data(file)
    IN  /\ EmptyNameAbsent(data.players)
        /\ \A roster \in ShortRosters, other \in ShortRosters :
              LET with == Append(roster, App(NoName, {"MVP"}))
              IN  /\ calculate_compensation(data, with, other)
                        = calculate_compensation(data, roster, other)
                  /\ calculate_compensation(data, other, with)
                        = calculate_compensation(data, other, roster)
        /\ \A m \in SeededInputs :
              HasEmptyEntry(m) =>
                  LET given == add_match(data, m, Now(data))
                      bare == add_match(data, Stripped(m), Now(data))
                  IN  /\ given.saved
                      /\ given.ret = bare.ret
                      /\ given.data.players = bare.data.players
                      /\ EmptyNameAbsent(given.data.players)
                      /\ EquivalentInput(LastMatch(given.data)) = m

\* the match entered last has an entry without a name, tagged MVP, next to
\* "b" on the losing side: "b" has one more loss and no teammate
C19_Witness ==
    /\ Len(file.matches) = SeedLen + 1
    /\ "compensation_info" \in DOMAIN LastMatch(file)
    /\ HasEmptyEntry(LastMatch(file))
    /\ LastMatch(file).winner = "Radiant"
    /\ HasPlayer(file.players, "b")
    /\ PlayerOf(file.players, "b").losses = SeedLen + 1
    /\ PlayerOf(file.players, "b").teammates = EmptyMap
    /\ DOMAIN PlayerOf(file.players, "b").opponents = {"a", "c"}
    /\ EmptyNameAbsent(file.players)

----------------------------------------------------------------------------
\* C20: get_leaderboard returns one row for every player of the mapping and
\* no other row, the rows in non-increasing order of score, the row at
\* place k with rank k, and rows of equal score in the order their players
\* have in the mapping.
C20_LeaderboardOrder ==
    answer.op = "get_leaderboard" =>
        LET rows == answer.ret
            players == load_data(file).players
        IN  /\ Len(rows) = Len(players)
            /\ \A i \in 1..Len(players) :
                    Cardinality({k \in 1..Len(rows) : rows[k].name = players[i].name}) = 1
            /\ \A k \in 1..Len(rows) :
                    /\ rows[k].rank = k
                    /\ rows[k].score = ScoreOf(players, rows[k].name)
            /\ \A k, l \in 1..Len(rows) :
                    k < l =>
                        /\ rows[k].score >= rows[l].score
                        /\ rows[k].score = rows[l].score
                              => PlayerIndex(players, rows[k].name)
                                    < PlayerIndex(players, rows[l].name)

\* the leaderboard of a season of twenty players or more has been read:
\* its first row is the player entered last but one, its first two rows
\* have the same score
C20_Witness ==
    LET players == load_data(file).players
    IN  /\ answer.op = "get_leaderboard"
        /\ Len(answer.ret) >= 20
        /\ SeasonOver
        /\ answer.ret[1].score = answer.ret[2].score
        /\ PlayerIndex(players, answer.ret[1].name) = Len(players) - 1
        /\ PlayerIndex(players, answer.ret[2].name) = Len(players)
        /\ answer.ret[Len(answer.ret)].score < answer.ret[1].score

----------------------------------------------------------------------------
(* C21: the preview                                                        *)

\* the entries a list of names stands for
AsRoster(names) == [i \in 1..Len(names) |-> App(names[i], {})]

\* some named player of the two lists has no tier
SomeUnclassified(data, radiant_names, dire_names) ==
    \E names \in {radiant_names, dire_names} :
        \E i \in 1..Len(names) :
            /\ names[i] # NoName
            /\ get_player_horse_level(data, names[i]) = Unclassified

\* C21: preview_team_balance writes nothing to the store; the totals it
\* reports are the team values calculate_team_score computes for the same
\* rosters on the same document (and the scores calculate_compensation
\* reports when every named player has a tier); its advisory is the "rule
\* not active" one iff some named player is unclassified, otherwise the
\* "result would be invalid" one iff the totals differ by 2 or more, the
\* "+0.5 each for the losing team" one iff they differ by exactly 1, and
\* no message iff they are equal.
C21_PreviewAgreesWithEvaluator ==
    /\ [](answer.op = "preview_team_balance" =>
            LET data == load_data(file)
                radiant == AsRoster(answer.arg[1])
                dire == AsRoster(answer.arg[2])
                ret == answer.ret
                verdict == calculate_compensation(data, radiant, dire)
                unclassified == SomeUnclassified(data, answer.arg[1], answer.arg[2])
                gap == Abs(calculate_team_score(data, radiant)
                           - calculate_team_score(data, dire))
            IN  /\ ret.radiant_score = calculate_team_score(data, radiant)
                /\ ret.dire_score = calculate_team_score(data, dire)
                /\ ret.all_classified = verdict.all_classified
                /\ verdict.all_classified =>
                      /\ ret.radiant_score = verdict.winner_score
                      /\ ret.dire_score = verdict.loser_score
                /\ ret.warning.kind = "not_active" <=> unclassified
                /\ ~ unclassified =>
                      /\ ret.warning.kind = "invalid" <=> gap >= 2
                      /\ ret.warning.kind = "compensation" <=> gap = 1
                      /\ ret.warning = NoAdvisory <=> gap = 0)
    /\ [][answer'.op = "preview_team_balance" => file' = file]_vars

\* after the rounds of a league in which "e" is elite and "c" mid, the
\* preview of "c" against "e" and an entry without a name announces half a
\* point for Radiant, the weaker team by one
C21_Witness ==
    /\ SeasonOver
    /\ answer.op = "preview_team_balance"
    /\ answer.arg = <<<<"c">>, <<"e", NoName>>>>
    /\ answer.ret.radiant_score = 0 /\ answer.ret.dire_score = 1
    /\ answer.ret.warning = Advisory("compensation", 1, "Radiant")
    /\ Len(answer.ret.dire_players) = 1

----------------------------------------------------------------------------
(* C22: the verdict is computed before the match is applied                *)

\* the verdict calculate_compensation gives m on data
VerdictOn(data, m) == calculate_compensation(data, WinnerSide(m), LoserSide(m))

\* C22: add_match computes the verdict before applying the match: the
\* compensation_info it stores on the match (and returns) is
\* calculate_compensation on the players mapping and the overrides as they
\* were before the call, also when the verdict on the state that contains
\* the match's deltas is another one; the scores change by the points that
\* verdict gives.
C22_VerdictBeforeDeltas ==
    [][\A m \in SeededInputs :
          AddMatch(m) =>
              /\ LastMatch(file').compensation_info = VerdictOn(file, m)
              /\ add_match(file, m, Now(file)).ret.compensation_info = VerdictOn(file, m)
              /\ ScoredBy(m, VerdictOn(file, m).compensation)]_vars

\* the twentieth game of "a" and "b" has been entered with no override
\* set: its stored verdict has the rule off, as before the call, while the
\* verdict on the mapping that contains the game gives "b" half a point
C22_Witness ==
    /\ Len(file.matches) = SeedLen + 1
    /\ LastMatch(file).timestamp > 0
    /\ "compensation_info" \in DOMAIN LastMatch(file)
    /\ Overrides(file) = EmptyMap
    /\ ~ LastMatch(file).compensation_info.all_classified
    /\ VerdictOn(file, LastMatch(file)).all_classified
    /\ VerdictOn(file, LastMatch(file)).compensation = 1
    /\ LastMatch(file).compensation_info.compensation = 0

----------------------------------------------------------------------------
(* C23, C26: ids and the record a delete removes                           *)

\* C23: delete_match on the id of a stored match removes exactly one
\* record: the ledger becomes one shorter, and every other stored match
\* remains, unchanged and in the same relative order, in every state reached
\* by add_match, update_match and delete_match.
C23_DeleteRemovesExactlyOne ==
    LET data == load_data(file)
    IN  \A id \in IdInputs(data) :
            HasMatch(data, id) =>
                LET after == delete_match(data, id).data.matches
                IN  /\ Len(after) = Len(data.matches) - 1
                    /\ \E i \in 1..Len(data.matches) :
                          /\ data.matches[i].id = id
                          /\ after = Without(data.matches, i)

\* C26: the ids of the matches in the stored ledger are pairwise distinct
\* in every state reached by add_match, update_match and delete_match.
C26_IdsPairwiseDistinct ==
    \A i \in 1..Len(file.matches), j \in 1..Len(file.matches) :
        i # j => file.matches[i].id # file.matches[j].id

----------------------------------------------------------------------------
(* C24: stored verdicts                                                    *)

\* C24: every match in the stored ledger carries a compensation_info
\* verdict after any sequence of add_match, update_match and delete_match;
\* a match replaced by update_match still has a stored verdict for the
\* replay to apply.
C24_EveryMatchHasVerdict ==
    \A i \in 1..Len(file.matches) : "compensation_info" \in DOMAIN file.matches[i]

----------------------------------------------------------------------------
(* C25: no qualified player                                                *)

\* C25 as stated: when no player has 20 games, the tier classifier returns
\* mid for a queried player who has no override.
C25_MidWhenNobodyQualified ==
    LET data == load_data(file)
    IN  \A n \in Names \cup {Stranger} :
            (Qualified(data) = {} /\ ~ Overridden(data, n)) =>
                get_player_horse_level(data, n) = "mid"

\* C25, amended: when no player has 20 games, get_player_horse_level
\* returns the empty tier for a queried player who has no override: the
\* player has no value and turns the balance rule off for a roster; mid is
\* what calculate_auto_horse_level returns for an empty qualified list, and
\* get_player_horse_level calls it only for a player with 20 games.
C25_NoTierWhenNobodyQualified ==
    LET data == load_data(file)
    IN  \A n \in Names \cup {Stranger} :
            (Qualified(data) = {} /\ ~ Overridden(data, n)) =>
                /\ get_player_horse_level(data, n) = Unclassified
                /\ get_horse_value(get_player_horse_level(data, n)) = <<>>
                /\ ~ AllClassified(data, <<App(n, {})>>)
                /\ calculate_auto_horse_level(data, n) = "mid"
                /\ GamesOf(data.players, n) < QualifiedGames

\* "a" has 19 games and no override, "b" has been given one by hand, and
\* nobody has 20 games
C25_Witness ==
    LET data == load_data(file)
    IN  /\ Qualified(data) = {}
        /\ GamesOf(data.players, "a") = QualifiedGames - 1
        /\ ~ Overridden(data, "a")
        /\ Overridden(data, "b")
        /\ get_player_horse_level(data, "a") = Unclassified
        /\ get_player_horse_level(data, "b") = "mid"

----------------------------------------------------------------------------
(* C27: opponents                                                          *)

\* the names a roster lists
NamesIn(roster) == {roster[i].name : i \in 1..Len(roster)} \ {NoName}

\* every match has a team label as winner and no player on both sides
ProperLedger(matches) ==
    \A i \in 1..Len(matches) :
        /\ matches[i].winner \in TeamLabels
        /\ NamesIn(matches[i].radiant_players) \cap NamesIn(matches[i].dire_players) = {}

\* C27: when every stored match has one of the two team labels as winner
\* and disjoint rosters, any two players x and y have met as opponents as
\* often by x's record as by y's, and the wins of the two records add up
\* to the games: the opponent's wins against x, as get_player_detail
\* derives them, are games minus x's wins.
C27_OpponentsMirror ==
    ProperLedger(file.matches) =>
        \A i, j \in 1..Len(file.players) :
            LET x == file.players[i]
                y == file.players[j]
                xy == RelationTo(x.opponents, y.name)
                yx == RelationTo(y.opponents, x.name)
            IN  /\ xy.games = yx.games
                /\ xy.wins + yx.wins = xy.games
                /\ OpponentWins(xy) = yx.wins

\* "a" and "b" have met twice, in matches won by a team, and won once each
C27_Witness ==
    /\ ProperLedger(file.matches)
    /\ Len(file.matches) = 2
    /\ HasPlayer(file.players, "a") /\ HasPlayer(file.players, "b")
    /\ RelationTo(PlayerOf(file.players, "a").opponents, "b") = [games |-> 2, wins |-> 1]
    /\ RelationTo(PlayerOf(file.players, "b").opponents, "a") = [games |-> 2, wins |-> 1]

----------------------------------------------------------------------------
(* C28: the range of a score                                               *)

\* C28: in every reachable state each player's score is a multiple of 0.5
\* (a whole number of the half points scores are kept in) and lies between
\* wins - 1.5 * losses and 1.5 * wins: a win counts between +1 and +1.5, a
\* loss between -1.5 and 0, the compensation included.
C28_ScoreWithinBounds ==
    \A i \in 1..Len(file.players) :
        LET p == file.players[i]
        IN  /\ p.score \in Int
            /\ 2 * p.wins - 3 * p.losses <= p.score
            /\ p.score <= 3 * p.wins

\* both ends are met: "b" has one game, a loss tagged SVP with half a point
\* of compensation, worth 0; "a" has won once as MVP and lost once
C28_Witness ==
    /\ HasPlayer(file.players, "b") /\ HasPlayer(file.players, "a")
    /\ PlayerOf(file.players, "b").losses = 1
    /\ PlayerOf(file.players, "b").wins = 0
    /\ PlayerOf(file.players, "b").score = 0
    /\ LastMatch(file).compensation_info.compensation = 1
    /\ PlayerOf(file.players, "a").wins = 1
    /\ PlayerOf(file.players, "a").losses = 1
    /\ PlayerOf(file.players, "a").score = 3 - 2 + 1

----------------------------------------------------------------------------
(* C29: the overrides                                                      *)

\* levels that are none of the three tier labels
BadLevels == {"bogus", Unclassified, "Radiant"}

\* C29: horse_overrides changes only through set_horse_level and
\* remove_horse_override: add_match, update_match and delete_match, with
\* their recomputation of the statistics, leave every override as it was;
\* set_horse_level with a level that is none of the three tier labels
\* returns false and changes nothing; every stored override is one of the
\* three tier labels.
C29_OverridesChangeByHandOnly ==
    /\ [](\A n \in DOMAIN Overrides(file) : Overrides(file)[n] \in DOMAIN HORSE_LEVELS)
    /\ [](\A n \in Names, level \in BadLevels :
            set_horse_level(load_data(file), n, level)
                = [data |-> load_data(file), ret |-> FALSE, saved |-> FALSE])
    /\ [](LET data == load_data(file)
          IN  /\ \A m \in SeededInputs :
                    Overrides(add_match(data, m, Now(data)).data) = Overrides(data)
              /\ \A id \in IdInputs(data) :
                    /\ Overrides(delete_match(data, id).data) = Overrides(data)
                    /\ \A m \in UpdateInputs :
                          Overrides(update_match(data, id, m).data) = Overrides(data))
    /\ [][Overrides(file') # Overrides(file)
            => \/ \E o \in OverrideInputs : SetHorseLevel(o[1], o[2])
               \/ \E n \in {"a", "b"} : RemoveHorseOverride(n)]_vars

\* "a" and "b", with 19 games each, were given tiers by hand and then
\* played their twentieth game: its verdict has every player classified,
\* and the two overrides are stored as they were set
C29_Witness ==
    /\ Len(file.matches) = SeedLen + 1
    /\ LastMatch(file).timestamp > 0
    /\ "compensation_info" \in DOMAIN LastMatch(file)
    /\ LastMatch(file).compensation_info.all_classified
    /\ LastMatch(file).compensation_info.difference = 2
    /\ DOMAIN Overrides(file) = {"a", "b"}
    /\ Overrides(file)["a"] = "elite" /\ Overrides(file)["b"] = "auto"

====
